---------------------------- MODULE Spec2Model ----------------------------
(***************************************************************************)
(* Model of helper_scripts/python/donwload_un_ocha_opt.py: the catalog     *)
(* scan, the per-layer size check and confirmation prompt, the chunked and *)
(* the unpaginated download, and the write of the GeoJSON file.            *)
(*                                                                         *)
(* A Python str is a sequence of one-character strings.  A list of object  *)
(* ids is represented by its length: the code never looks at an id, it     *)
(* only slices the list by position, so a chunk is the pair of positions   *)
(* it covers.  A list of features is a sequence of runs, one run per        *)
(* extend() call that added something: the chunk it came from and how many *)
(* features it holds.                                                      *)
(***************************************************************************)
EXTENDS Integers, Sequences, FiniteSets, TLC

(* ---------------------------- bounds ----------------------------------- *)

\* longest service list a catalog reply carries
MaxServices == 2
\* longest layer list a service reply carries
MaxLayers == 2

(* --------------------------- configuration ----------------------------- *)

DOWNLOAD_FOLDER == <<"d","o","w","n","l","o","a","d","s","_","q","g","i","s","_","r","e","a","d","y">>

LARGE_LAYER_THRESHOLD == 100000

chunk_size == 1000

KEYWORDS ==
    << <<"O","b","s","t","a","c","l","e">>,
       <<"B","a","r","r","i","e","r">>,
       <<"C","h","e","c","k","p","o","i","n","t">>,
       <<"R","o","a","d">>,
       <<"P","a","l","e","s","t","i","n","e">>,
       <<"G","a","z","a">>,
       <<"W","e","s","t"," ","B","a","n","k">>,
       <<"C","r","o","s","s","i","n","g">>,
       <<"F","e","n","c","e">>,
       <<"G","a","t","e">> >>

(* ------------------------------ strings -------------------------------- *)

Upper == <<"A","B","C","D","E","F","G","H","I","J","K","L","M",
           "N","O","P","Q","R","S","T","U","V","W","X","Y","Z">>
Lower == <<"a","b","c","d","e","f","g","h","i","j","k","l","m",
           "n","o","p","q","r","s","t","u","v","w","x","y","z">>
Digits == <<"0","1","2","3","4","5","6","7","8","9">>

Range(s) == {s[i] : i \in DOMAIN s}

\* str.lower() on one character
LowerChar(c) ==
    IF \E i \in DOMAIN Upper : Upper[i] = c
    THEN Lower[CHOOSE i \in DOMAIN Upper : Upper[i] = c]
    ELSE c

\* str.lower()
StrLower(s) == [i \in DOMAIN s |-> LowerChar(s[i])]

Whitespace == {" ", "\t", "\n", "\r"}

RECURSIVE LStrip(_)
LStrip(s) == IF s # <<>> /\ Head(s) \in Whitespace THEN LStrip(Tail(s)) ELSE s

RECURSIVE RStrip(_)
RStrip(s) ==
    IF s # <<>> /\ s[Len(s)] \in Whitespace
    THEN RStrip(SubSeq(s, 1, Len(s) - 1))
    ELSE s

\* str.strip()
StrStrip(s) == RStrip(LStrip(s))

\* s.startswith(p)
StartsWith(s, p) == Len(p) <= Len(s) /\ SubSeq(s, 1, Len(p)) = p

\* Python's `sub in s`
Contains(sub, s) ==
    \E i \in 0..(Len(s) - Len(sub)) : SubSeq(s, i + 1, i + Len(sub)) = sub

\* str.replace(old, new): every non-overlapping occurrence, left to right
RECURSIVE StrReplace(_, _, _)
StrReplace(s, old, new) ==
    IF s = <<>> THEN <<>>
    ELSE IF StartsWith(s, old)
         THEN new \o StrReplace(SubSeq(s, Len(old) + 1, Len(s)), old, new)
         ELSE <<Head(s)>> \o StrReplace(Tail(s), old, new)

\* str(n) of an int
RECURSIVE StrNat(_)
StrNat(n) == IF n < 10 THEN <<Digits[n + 1]>> ELSE StrNat(n \div 10) \o <<Digits[(n % 10) + 1]>>

StrInt(n) == IF n < 0 THEN <<"-">> \o StrNat(-n) ELSE StrNat(n)

\* the characters the pattern [^\w\-_\. ] does not match (ASCII part of \w)
SafeChars == Range(Upper) \cup Range(Lower) \cup Range(Digits) \cup {"_", "-", ".", " "}

sanitize_filename(name) ==
    [i \in DOMAIN name |-> IF name[i] \in SafeChars THEN name[i] ELSE "_"]

\* os.path.join(a, b) on a POSIX system
PathJoin(a, b) ==
    IF StartsWith(b, <<"/">>) THEN b
    ELSE IF a = <<>> \/ a[Len(a)] = "/" THEN a \o b
    ELSE a \o <<"/">> \o b

(* ----------------------- Python and JSON values ------------------------- *)

None == [py |-> "None"]

\* a list of n object ids
IdList(n) == [py |-> "list", len |-> n]

\* a response body that r.json() cannot decode
BadJson == [py |-> "undecodable"]

\* a JSON object carrying only an error member
ErrorDict == [py |-> "dict", error |-> "error"]

\* dict.get(key, default)
DictGet(d, key, default) == IF key \in DOMAIN d THEN d[key] ELSE default

\* truth value of a dict or None
TruthyDict(d) == d.py = "dict" /\ DOMAIN d # {"py"}

\* truth value of a list of ids or None
TruthyIds(v) == v.py = "list" /\ v.len > 0

\* a console line: its text, the number put into it and the string put into it
Line0(msg) == [msg |-> msg, n |-> 0, text |-> ""]
LineN(msg, n) == [msg |-> msg, n |-> n, text |-> ""]
LineS(msg, text) == [msg |-> msg, n |-> 0, text |-> text]

\* len() of a feature list held as runs
RECURSIVE FeatLenOf(_, _, _)
FeatLenOf(fs, lo, hi) ==
    IF lo > hi THEN 0
    ELSE IF lo = hi THEN fs[lo].n
    ELSE LET mid == (lo + hi) \div 2
         IN  FeatLenOf(fs, lo, mid) + FeatLenOf(fs, mid + 1, hi)

FeatLen(fs) == FeatLenOf(fs, 1, Len(fs))

\* list.extend(batch) where batch holds k features returned for chunk i
Extend(fs, i, k) == IF k = 0 THEN fs ELSE Append(fs, [chunk |-> i, n |-> k])

Min(a, b) == IF a < b THEN a ELSE b

(* ------------------------- the remote server --------------------------- *)

\* requests.get raised (connection error, timeout)
NetErr == [net |-> "error"]

\* requests.get returned a response
Http(status, body) == [net |-> "ok", status |-> status, body |-> body]

\* the lists of at most n entries of S that name no entry twice
NoRepeat(f) == \A i, j \in DOMAIN f : f[i] = f[j] => i = j

ListsUpTo(S, n) == UNION {{f \in [1..k -> S] : NoRepeat(f)} : k \in 0..n}

hGaza == <<"H","o","s","t","e","d","/","G","A","Z","A",":","1">>
bGaza == <<"G","A","Z","A",":","1">>
hWater == <<"H","o","s","t","e","d","/","W","a","t","e","r">>

\* the service entries a catalog reply is built from
ServicePool ==
    { [name |-> hGaza, type |-> "FeatureServer"],
      [name |-> bGaza, type |-> "FeatureServer"],
      [name |-> hWater, type |-> "FeatureServer"],
      [name |-> hGaza, type |-> "MapServer"],
      [name |-> hGaza] }

CatalogReplies ==
    {NetErr, Http(200, BadJson)}
      \cup {Http(200, [py |-> "dict", services |-> s]) : s \in ListsUpTo(ServicePool, MaxServices)}

nCheckpoints == <<"C","h","e","c","k","p","o","i","n","t","s">>
nAreaAB == <<"A","r","e","a"," ","A","/","B">>

\* the layer entries a service reply is built from
LayerPool ==
    { [id |-> 0, name |-> nCheckpoints],
      [id |-> 1, name |-> nAreaAB],
      [id |-> 2] }

LayerReplies ==
    {NetErr, Http(200, BadJson), Http(200, ErrorDict)}
      \cup {Http(200, [py |-> "dict", layers |-> l]) : l \in ListsUpTo(LayerPool, MaxLayers)}

\* the sizes of the id lists an ID query returns
IdCounts == {0, 3, LARGE_LAYER_THRESHOLD, LARGE_LAYER_THRESHOLD + 1}

IdReplies ==
    {NetErr, Http(500, ErrorDict), Http(200, BadJson), Http(200, ErrorDict),
     Http(200, [py |-> "dict", objectIds |-> None])}
      \cup {Http(200, [py |-> "dict", objectIds |-> IdList(n)]) : n \in IdCounts}

\* replies to the unpaginated download request
DownloadReplies ==
    {NetErr, Http(500, ErrorDict), Http(200, BadJson), Http(200, ErrorDict),
     Http(200, [py |-> "dict", type |-> "FeatureCollection", features |-> <<>>]),
     Http(200, [py |-> "dict", type |-> "FeatureCollection",
                features |-> <<[chunk |-> 0, n |-> 5]>>])}

\* How a server answers the chunk requests of one download: the answer to the
\* first request and the answer to every later one.
\*   "raise"   requests.get raises        "status"  a non-200 response
\*   "badjson" 200, body not decodable    "nokey"   200, no "features" member
\*   "full"    200, one feature per id    "short"   200, one feature fewer
ChunkServers ==
    { [first |-> "full", rest |-> "full"],
      [first |-> "raise", rest |-> "full"],
      [first |-> "full", rest |-> "status"],
      [first |-> "status", rest |-> "short"],
      [first |-> "nokey", rest |-> "badjson"] }

\* the reply to the chunk request that starts at list index i and carries n ids
ChunkReply(server, i, n) ==
    LET kind == IF i = 0 THEN server.first ELSE server.rest
    IN  CASE kind = "raise" -> NetErr
          [] kind = "status" -> Http(500, ErrorDict)
          [] kind = "badjson" -> Http(200, BadJson)
          [] kind = "nokey" -> Http(200, [py |-> "dict", type |-> "FeatureCollection"])
          [] kind = "full" ->
               Http(200, [py |-> "dict", type |-> "FeatureCollection",
                          features |-> Extend(<<>>, i, n)])
          [] kind = "short" ->
               Http(200, [py |-> "dict", type |-> "FeatureCollection",
                          features |-> Extend(<<>>, i, n - 1)])

\* the lines a user may type at a prompt
Lines ==
    { <<"y">>, <<"n">>, <<"Y">>, <<" ","N"," ">>, <<"y","e","s">>, <<>> }

(* ------------------------------ state ---------------------------------- *)

VARIABLES
    pc,              \* where main() is
    services,        \* the catalog's service list
    si,              \* index of the service the outer loop is at (1-based)
    layers,          \* l_data['layers'] of the current service
    li,              \* index of the layer the inner loop is at (1-based)
    ids,             \* ids of the current layer, or None
    should_download,
    total_count,
    choice,          \* the normalised answer read last
    geojson_data,    \* what the download returned
    written,         \* the files in DOWNLOAD_FOLDER and the layer each holds
    out,             \* the console lines the latest step printed
    req,             \* the HTTP requests the latest step issued, each with its reply
    typed,           \* the lines the latest step read from standard input
    prompted         \* a prompt has been shown for the current layer

vars == <<pc, services, si, layers, li, ids, should_download, total_count,
          choice, geojson_data, written, out, req, typed, prompted>>

service == services[si]
s_name == service.name
s_type == service.type
layer == layers[li]
l_name == layer.name
l_id == layer.id

\* line 134
clean_s_name == StrReplace(s_name, <<"H","o","s","t","e","d","/">>, <<>>)

\* lines 135 and 148.  A URL is held as the parts the code puts into it: the
\* service name, and for a layer the service name and the layer id.
service_url == [service |-> s_name]
full_layer_url == [service |-> s_name, layer |-> l_id]

\* line 128: any(k.lower() in s_name.lower() for k in KEYWORDS)
MatchesKeyword(name) ==
    \E k \in DOMAIN KEYWORDS : Contains(StrLower(KEYWORDS[k]), StrLower(name))

\* line 131, negated: s_type == 'FeatureServer'
IsFeatureServerAny(type) == TRUE
IsFeatureServer(type) == type = "FeatureServer"

\* line 164
IsLargeOffByOne(count) == count >= LARGE_LAYER_THRESHOLD
IsLarge(count) == count > LARGE_LAYER_THRESHOLD

\* lines 168 and 183: input(...).lower().strip()
Normalise(line) == StrStrip(StrLower(line))

\* lines 169 and 184: choice in ['y', 'n']
IsAnswerAny(c) == TRUE
IsAnswer(c) == c \in {<<"y">>, <<"n">>}

\* lines 171 and 186: choice == 'y'
Approves(c) == c = <<"y">>

\* line 197
FileName(clean, lid, lname) ==
    clean
      \o <<"_","_","_","L">> \o StrInt(lid) \o <<"_">>
      \o sanitize_filename(lname) \o <<".","g","e","o","j","s","o","n">>

\* line 198
FilePath(filename) == PathJoin(DOWNLOAD_FOLDER, filename)

\* open(filepath, "w") raises when the directory of the path is not the
\* download folder, the only directory main() creates
OpenFails(filename) == Contains(<<"/">>, filename)

(* --------------------------- get_layer_ids ----------------------------- *)

\* returns <<ids, error>>
get_layer_ids(reply) ==
    IF reply.net = "error" THEN <<None, "str(e)">>
    ELSE IF reply.status # 200 THEN <<None, "HTTP Error">>
    ELSE IF reply.body = BadJson THEN <<None, "str(e)">>
    ELSE IF "objectIds" \in DOMAIN reply.body THEN <<reply.body.objectIds, "None">>
    ELSE <<None, "Layer does not support ID querying">>

(* ------------------------- download_in_chunks -------------------------- *)

\* line 63: all_ids[i : i + chunk_size], as the list indices [from, to) it holds
ChunkIdsOverlap(all_ids, i) ==
    [from |-> Min(i, all_ids.len), to |-> Min(i + chunk_size + 1, all_ids.len)]
ChunkIds(all_ids, i) ==
    [from |-> Min(i, all_ids.len), to |-> Min(i + chunk_size, all_ids.len)]

\* range(start, stop, step) for step > 0, as a list
PyRange(start, stop, step) ==
    LET n == IF stop > start THEN ((stop - start - 1) \div step) + 1 ELSE 0
    IN  [k \in 1..n |-> start + (k - 1) * step]

\* lines 63-89: one pass of the loop body at index i: the request it issues,
\* the features it appends to all_features and the lines it prints
ChunkPass(layer_url, all_ids, server, i) ==
    CHOOSE pass \in
        { IF request.reply.net = "error"
               \/ (request.reply.status = 200 /\ request.reply.body = BadJson)
          THEN [request |-> request, batch |-> <<>>,
                out |-> <<LineN("[!] Error on batch", i)>>]
          ELSE IF request.reply.status = 200
          THEN [request |-> request,
                batch |-> DictGet(request.reply.body, "features", <<>>),
                out |-> <<LineN("Progress", i)>>]
          ELSE [request |-> request, batch |-> <<>>, out |-> <<>>] :
          request \in
            { [kind |-> "chunk", url |-> layer_url, objectIds |-> chunk_ids,
               reply |-> ChunkReply(server, i, chunk_ids.to - chunk_ids.from)] :
              chunk_ids \in {ChunkIds(all_ids, i)} } } : TRUE

\* f[lo] \o ... \o f[hi] for a sequence f of sequences
RECURSIVE Concat(_, _, _)
Concat(f, lo, hi) ==
    IF lo > hi THEN <<>>
    ELSE IF lo = hi THEN f[lo]
    ELSE LET mid == (lo + hi) \div 2
         IN  Concat(f, lo, mid) \o Concat(f, mid + 1, hi)

\* lines 57-95.  The loop of line 62 runs its passes in the order of the range;
\* all_features.extend() and print() append, so what the loop leaves is the
\* concatenation, in that order, of what each pass appends.  Each local is
\* bound once, as a bound variable, and read from there.
download_in_chunks(layer_url, all_ids, count, server) ==
    CHOOSE returned \in
        { [result |-> [py |-> "dict", type |-> "FeatureCollection",
                       features |-> Concat(batches, 1, Len(batches))],
           requests |-> [k \in DOMAIN passes |-> passes[k].request],
           out |-> <<LineN("-> Downloading features in batches...", count)>>
                     \o Concat(lines, 1, Len(lines)) \o <<Line0("")>>] :
          <<passes, batches, lines>> \in
            { <<ps, [k \in DOMAIN ps |-> ps[k].batch], [k \in DOMAIN ps |-> ps[k].out]>> :
              ps \in { [k \in DOMAIN starts |->
                          ChunkPass(layer_url, all_ids, server, starts[k])] :
                       starts \in {PyRange(0, count, chunk_size)} } } } : TRUE

(* -------------------------------- main --------------------------------- *)

\* the locals of one pass of the layer loop; none is read again once the pass
\* has ended, so they are cleared where a pass ends
ClearLayerLocals ==
    /\ ids' = None
    /\ should_download' = FALSE
    /\ total_count' = 0
    /\ choice' = <<>>
    /\ geojson_data' = None
    /\ prompted' = FALSE

\* a step that reads no input and leaves the locals alone
KeepLayerLocals ==
    /\ typed' = <<>>
    /\ UNCHANGED <<ids, should_download, total_count, choice, geojson_data, prompted>>

\* lines 107-111: the state in which main() issues the catalog request
Init ==
    /\ pc = "catalog"
    /\ services = <<>>
    /\ si = 0
    /\ layers = <<>>
    /\ li = 0
    /\ ids = None
    /\ should_download = FALSE
    /\ total_count = 0
    /\ choice = <<>>
    /\ typed = <<>>
    /\ geojson_data = None
    /\ written = {}
    /\ out = <<Line0("--- Smart Downloader ---"), Line0("--- Auto-downloading layers ---")>>
    /\ req = <<>>
    /\ prompted = FALSE

\* lines 206-207: except Exception in the service loop, after the try block
\* has printed and sent what it did, then the next service
ServiceExceptAborts(printed, sent) ==
    /\ pc' = "crashed"
    /\ out' = printed \o <<Line0("Traceback")>>
    /\ req' = sent
    /\ typed' = <<>>
    /\ layers' = <<>>
    /\ li' = 0
    /\ ClearLayerLocals
    /\ UNCHANGED <<services, si, written>>
ServiceExcept(printed, sent) ==
    /\ pc' = "services"
    /\ si' = si + 1
    /\ out' = printed \o <<Line0("Error scanning service")>>
    /\ req' = sent
    /\ typed' = <<>>
    /\ layers' = <<>>
    /\ li' = 0
    /\ ClearLayerLocals
    /\ UNCHANGED <<services, written>>

\* the pass for the current layer ends and the loop takes the next layer
LeaveLayer(printed, sent, read) ==
    /\ pc' = "layers"
    /\ li' = li + 1
    /\ out' = printed
    /\ req' = sent
    /\ typed' = read
    /\ ClearLayerLocals
    /\ UNCHANGED <<services, si, layers>>

NextLayer(printed, sent) == LeaveLayer(printed, sent, <<>>)

\* lines 113-120
FetchCatalog ==
    /\ pc = "catalog"
    /\ \E reply \in CatalogReplies :
         /\ req' = <<[kind |-> "catalog", reply |-> reply]>>
         /\ IF reply.net = "error" \/ reply.body = BadJson
            THEN /\ pc' = "returned"
                 /\ out' = <<Line0("Error connecting to server")>>
                 /\ UNCHANGED <<services, si>>
            ELSE /\ services' = DictGet(reply.body, "services", <<>>)
                 /\ si' = 1
                 /\ pc' = "services"
                 /\ out' = <<>>
    /\ UNCHANGED <<layers, li, written>>
    /\ KeepLayerLocals

\* lines 123-135: one pass of `for service in services` up to the layer request
ServiceLoop ==
    /\ pc = "services"
    /\ si <= Len(services)
    /\ req' = <<>>
    /\ IF "name" \notin DOMAIN service \/ "type" \notin DOMAIN service
       THEN /\ pc' = "crashed"
            /\ out' = <<Line0("Traceback")>>
            /\ UNCHANGED si
       ELSE IF ~MatchesKeyword(s_name) \/ ~IsFeatureServer(s_type)
       THEN /\ pc' = "services"
            /\ si' = si + 1
            /\ out' = <<>>
       ELSE /\ pc' = "get_layers"
            /\ out' = <<>>
            /\ UNCHANGED si
    /\ UNCHANGED <<services, layers, li, written>>
    /\ KeepLayerLocals

\* line 209
Finish ==
    /\ pc = "services"
    /\ si > Len(services)
    /\ pc' = "done"
    /\ out' = <<Line0("All done!")>>
    /\ req' = <<>>
    /\ UNCHANGED <<services, si, layers, li, written>>
    /\ KeepLayerLocals

\* lines 138-143
FetchLayers ==
    /\ pc = "get_layers"
    /\ \E reply \in LayerReplies :
         LET sent == <<[kind |-> "layers", url |-> service_url, reply |-> reply]>>
         IN  IF reply.net = "error" \/ reply.body = BadJson
             THEN ServiceExcept(<<>>, sent)
             ELSE IF "layers" \notin DOMAIN reply.body
             THEN /\ pc' = "services"
                  /\ si' = si + 1
                  /\ out' = <<>>
                  /\ req' = sent
                  /\ UNCHANGED <<services, layers, li, written>>
                  /\ KeepLayerLocals
             ELSE /\ pc' = "layers"
                  /\ layers' = reply.body.layers
                  /\ li' = 1
                  /\ out' = <<>>
                  /\ req' = sent
                  /\ UNCHANGED <<services, si, written>>
                  /\ KeepLayerLocals

\* lines 145-150: one pass of `for layer in l_data['layers']` up to the ID query
LayerLoop ==
    /\ pc = "layers"
    /\ IF li > Len(layers)
       THEN /\ pc' = "services"
            /\ si' = si + 1
            /\ layers' = <<>>
            /\ li' = 0
            /\ out' = <<>>
            /\ req' = <<>>
            /\ UNCHANGED <<services, written>>
            /\ KeepLayerLocals
       ELSE IF "name" \notin DOMAIN layer \/ "id" \notin DOMAIN layer
       THEN ServiceExcept(<<>>, <<>>)
       ELSE /\ pc' = "get_ids"
            /\ out' = <<Line0("Checking")>>
            /\ req' = <<>>
            /\ UNCHANGED <<services, si, layers, li, written>>
            /\ KeepLayerLocals

\* lines 153-187, up to the first input() or the download
CheckSize ==
    /\ pc = "get_ids"
    /\ \E reply \in IdReplies :
         LET got == get_layer_ids(reply)
             sent == <<[kind |-> "ids", url |-> full_layer_url, reply |-> reply]>>
         IN  IF got[1] # None
             THEN IF got[1].len = 0
                  THEN /\ NextLayer(<<Line0("[x] Empty layer. Skipping.")>>, sent)
                       /\ UNCHANGED written
                  ELSE /\ ids' = got[1]
                       /\ total_count' = got[1].len
                       /\ req' = sent
                       /\ IF IsLarge(got[1].len)
                          THEN /\ should_download' = FALSE
                               /\ pc' = "ask_large"
                               /\ prompted' = TRUE
                               /\ out' = <<Line0("[!] LARGE LAYER DETECTED"),
                                           Line0(">> Do you want to download this huge layer? (y/n): ")>>
                          ELSE /\ should_download' = TRUE
                               /\ pc' = "download"
                               /\ prompted' = FALSE
                               /\ out' = <<Line0("[OK] Auto-downloading...")>>
                       /\ UNCHANGED <<services, si, layers, li, choice, geojson_data, written>>
                       /\ typed' = <<>>
             ELSE /\ ids' = None
                  /\ total_count' = 0
                  /\ should_download' = FALSE
                  /\ pc' = "ask_unknown"
                  /\ prompted' = TRUE
                  /\ req' = sent
                  /\ out' = <<LineS("[?] Could not determine size.", got[2]),
                              Line0(">> Download anyway? (y/n): ")>>
                  /\ UNCHANGED <<services, si, layers, li, choice, geojson_data, written>>
                  /\ typed' = <<>>

\* a line arrives at the input() of lines 167-174
AskLarge ==
    /\ pc = "ask_large"
    /\ \E line \in Lines :
         LET c == Normalise(line)
         IN  IF ~IsAnswer(c)
             THEN /\ typed' = <<line>>
                  /\ choice' = c
                  /\ out' = <<Line0(">> Do you want to download this huge layer? (y/n): ")>>
                  /\ req' = <<>>
                  /\ UNCHANGED <<pc, services, si, layers, li, ids, should_download,
                                 total_count, geojson_data, written, prompted>>
             ELSE IF Approves(c)
             THEN /\ typed' = <<line>>
                  /\ choice' = c
                  /\ should_download' = TRUE
                  /\ pc' = "download"
                  /\ out' = <<>>
                  /\ req' = <<>>
                  /\ UNCHANGED <<services, si, layers, li, ids, total_count,
                                 geojson_data, written, prompted>>
             ELSE /\ LeaveLayer(<<Line0("Skipped.")>>, <<>>, <<line>>)
                  /\ UNCHANGED written

\* a line arrives at the input() of lines 182-187
AskUnknown ==
    /\ pc = "ask_unknown"
    /\ \E line \in Lines :
         LET c == Normalise(line)
         IN  IF ~IsAnswer(c)
             THEN /\ typed' = <<line>>
                  /\ choice' = c
                  /\ out' = <<Line0(">> Download anyway? (y/n): ")>>
                  /\ req' = <<>>
                  /\ UNCHANGED <<pc, services, si, layers, li, ids, should_download,
                                 total_count, geojson_data, written, prompted>>
             ELSE IF Approves(c)
             THEN /\ typed' = <<line>>
                  /\ choice' = c
                  /\ should_download' = TRUE
                  /\ pc' = "download"
                  /\ out' = <<>>
                  /\ req' = <<>>
                  /\ UNCHANGED <<services, si, layers, li, ids, total_count,
                                 geojson_data, written, prompted>>
             ELSE /\ LeaveLayer(<<>>, <<>>, <<line>>)
                  /\ UNCHANGED written

\* input() meets the end of standard input: EOFError, caught at line 206
InputEOF ==
    /\ pc \in {"ask_large", "ask_unknown"}
    /\ ServiceExcept(<<>>, <<>>)

\* lines 190-192
DownloadChunked ==
    /\ pc = "download"
    /\ should_download
    /\ TruthyIds(ids)
    /\ \E server \in ChunkServers :
         \E r \in {download_in_chunks(full_layer_url, ids, total_count, server)} :
             /\ geojson_data' = r.result
             /\ req' = r.requests
             /\ out' = r.out
    /\ pc' = "save"
    /\ UNCHANGED <<services, si, layers, li, ids, should_download, total_count,
                   choice, written, prompted>>
    /\ typed' = <<>>

\* lines 97-104
simple_download(reply) ==
    IF reply.status = 200 THEN reply.body ELSE None

\* lines 190-194
DownloadSimple ==
    /\ pc = "download"
    /\ should_download
    /\ ~TruthyIds(ids)
    /\ \E reply \in DownloadReplies :
         LET sent == <<[kind |-> "simple", url |-> full_layer_url, reply |-> reply]>>
         IN  IF reply.net = "error" \/ (reply.status = 200 /\ reply.body = BadJson)
             THEN ServiceExcept(<<Line0("-> Attempting simple download")>>, sent)
             ELSE /\ geojson_data' = simple_download(reply)
                  /\ req' = sent
                  /\ out' = <<Line0("-> Attempting simple download")>>
                  /\ pc' = "save"
                  /\ UNCHANGED <<services, si, layers, li, ids, should_download,
                                 total_count, choice, written, prompted>>
                  /\ typed' = <<>>

\* lines 196-204
SaveResult ==
    /\ pc = "save"
    /\ IF TruthyDict(geojson_data) /\ FeatLen(DictGet(geojson_data, "features", <<>>)) > 0
       THEN LET filename == FileName(clean_s_name, l_id, l_name)
            IN  IF OpenFails(filename)
                THEN ServiceExcept(<<>>, <<>>)
                ELSE /\ written' =
                          {w \in written : w.path # FilePath(filename)}
                            \cup {[path |-> FilePath(filename), filename |-> filename,
                                   service |-> s_name, id |-> l_id, name |-> l_name]}
                     /\ NextLayer(<<Line0("[SUCCESS] Saved")>>, <<>>)
       ELSE /\ NextLayer(<<Line0("[FAIL] Download resulted in empty file.")>>, <<>>)
            /\ UNCHANGED written

Next ==
    \/ FetchCatalog
    \/ ServiceLoop
    \/ Finish
    \/ FetchLayers
    \/ LayerLoop
    \/ CheckSize
    \/ AskLarge
    \/ AskUnknown
    \/ InputEOF
    \/ DownloadChunked
    \/ DownloadSimple
    \/ SaveResult

Spec == Init /\ [][Next]_vars

\* The program keeps running while it can, and every prompt is eventually
\* answered with a line that normalises to "y" or "n".
ValidAnswer == (AskLarge \/ AskUnknown) /\ pc' # pc

LiveSpec == Spec /\ WF_vars(Next) /\ WF_vars(ValidAnswer)

(* ------------------------- vocabulary of the claims -------------------- *)

PromptLarge == ">> Do you want to download this huge layer? (y/n): "

\* the request reached the server and came back as a decodable 200 reply
Succeeded(reply) == reply.net = "ok" /\ reply.status = 200 /\ reply.body # BadJson

\* the features a reply hands to the caller
ReturnedFeatures(reply) ==
    IF Succeeded(reply) /\ "features" \in DOMAIN reply.body THEN reply.body.features ELSE <<>>

\* the feature lists of the replies recorded in a request log, in log order
ReturnedInOrder(log) ==
    Concat([k \in DOMAIN log |-> ReturnedFeatures(log[k].reply)], 1, Len(log))

IsDownloadRequest(r) == r.kind \in {"chunk", "simple"}

\* name holds keyword k at some offset, letter case ignored
HoldsKeyword(name, k) ==
    \E off \in 0..(Len(name) - Len(k)) :
        \A j \in 1..Len(k) : LowerChar(name[off + j]) = LowerChar(k[j])

\* a catalog entry the scan may inspect
Eligible(entry) ==
    /\ {"name", "type"} \subseteq DOMAIN entry
    /\ entry.type = "FeatureServer"
    /\ \E k \in DOMAIN KEYWORDS : HoldsKeyword(entry.name, KEYWORDS[k])

WellFormedCatalog == \A i \in DOMAIN services : {"name", "type"} \subseteq DOMAIN services[i]

FeatureCount(g) == IF TruthyDict(g) THEN FeatLen(DictGet(g, "features", <<>>)) ELSE 0

(* ------------------------------- claims -------------------------------- *)

\* C3: when a chunked download over an id list of length M has returned, it
\* has issued exactly ceil(M/1000) chunk requests for the layer; the k-th
\* carries the ids at list positions (k-1)*1000 up to min(k*1000, M), so the
\* requests follow list order, carry at most 1000 ids each and cover every id
\* exactly once; and the FeatureCollection returned holds, in arrival order,
\* exactly the features of the replies that succeeded, so its feature count
\* is the sum of theirs.
C3_ChunkedDownload ==
    (pc = "save" /\ TruthyIds(ids)) =>
        LET M == ids.len
            n == Len(req)
        IN  /\ n * 1000 >= M
            /\ (n - 1) * 1000 < M
            /\ \A k \in 1..n :
                 /\ req[k].kind = "chunk"
                 /\ req[k].url = full_layer_url
                 /\ req[k].objectIds.from = (k - 1) * 1000
                 /\ req[k].objectIds.to = Min(k * 1000, M)
                 /\ req[k].objectIds.to - req[k].objectIds.from <= 1000
            /\ geojson_data.py = "dict"
            /\ geojson_data.type = "FeatureCollection"
            /\ geojson_data.features = ReturnedInOrder(req)
            /\ FeatLen(geojson_data.features) = FeatLen(ReturnedInOrder(req))

\* C3 witness: a download of 100001 ids has issued its 101 requests, one of
\* them failed, and the collection holds the features of the other hundred.
C3_Witness ==
    /\ pc = "save"
    /\ TruthyIds(ids)
    /\ ids.len = 100001
    /\ Len(req) = 101
    /\ ~Succeeded(req[1].reply)
    /\ FeatLen(geojson_data.features) = 100001 - 1000

\* C6: every chunk request that failed (requests.get raised, the body could
\* not be decoded, or the status was not 200) is logged, adds no feature, and
\* leaves the remaining chunks requested and a FeatureCollection returned.
C6_ChunkFailureLogged ==
    (pc = "save" /\ TruthyIds(ids)) =>
        /\ Len(req) * 1000 >= ids.len
        /\ geojson_data.py = "dict"
        /\ geojson_data.type = "FeatureCollection"
        /\ geojson_data.features = ReturnedInOrder(req)
        /\ \A k \in DOMAIN req :
             ~Succeeded(req[k].reply) =>
                 \E m \in DOMAIN out :
                     out[m] = LineN("[!] Error on batch", req[k].objectIds.from)

\* C9: a layer whose ID query gave N ids with 0 < N <= LARGE_LAYER_THRESHOLD
\* is never at a prompt and has never been shown one: it is approved for
\* download as soon as its size is known, and then downloaded in chunks.
C9_SmallLayerNoPrompt ==
    (ids.py = "list" /\ total_count > 0 /\ total_count <= 100000) =>
        /\ pc \in {"download", "save"}
        /\ ~prompted
        /\ should_download
        /\ typed = <<>>
        /\ (pc = "save" => \A k \in DOMAIN req : req[k].kind = "chunk")

\* C9 witness: a layer of exactly LARGE_LAYER_THRESHOLD ids has been
\* downloaded in chunks although no prompt was shown for it.
C9_Witness ==
    /\ pc = "save"
    /\ ids.py = "list"
    /\ total_count = 100000
    /\ ~prompted
    /\ Len(req) = 100

\* C1 as stated: at the prompt of a large layer the download is approved only
\* by the line "y"; a line other than "y" and "n" shows the prompt again and
\* changes nothing; the line "n" ends the layer with no request and no file.
C1_LiteralAnswer ==
    [][(pc = "ask_large" /\ typed' # <<>>) =>
          LET line == typed'[1]
          IN  /\ (pc' = "download" => line = <<"y">>)
              /\ (line \notin {<<"y">>, <<"n">>} =>
                     /\ pc' = "ask_large"
                     /\ out' = <<Line0(PromptLarge)>>
                     /\ req' = <<>>
                     /\ written' = written
                     /\ ~should_download')
              /\ (line = <<"n">> =>
                     /\ pc' = "layers"
                     /\ li' = li + 1
                     /\ req' = <<>>
                     /\ written' = written)]_vars

\* C1, amended: no download request is issued for a layer of more than
\* LARGE_LAYER_THRESHOLD ids unless the answer read for it, lower-cased and
\* stripped, is "y"; an answer that so normalised is neither "y" nor "n" shows
\* the prompt again and changes nothing; an answer that normalises to "n"
\* ends the layer with no request and no file.
C1_NormalisedAnswer ==
    [][/\ (pc = "ask_large" /\ typed' # <<>>) =>
             LET c == Normalise(typed'[1])
             IN  /\ (pc' = "download" <=> c = <<"y">>)
                 /\ (c \notin {<<"y">>, <<"n">>} =>
                        /\ pc' = "ask_large"
                        /\ out' = <<Line0(PromptLarge)>>
                        /\ req' = <<>>
                        /\ written' = written
                        /\ ~should_download')
                 /\ (c = <<"n">> =>
                        /\ pc' = "layers"
                        /\ li' = li + 1
                        /\ req' = <<>>
                        /\ written' = written)
       /\ (total_count > 100000 /\ \E k \in DOMAIN req' : IsDownloadRequest(req'[k])) =>
             /\ prompted
             /\ choice = <<"y">>
             /\ should_download
       /\ (total_count' > 100000 /\ pc' \in {"download", "save"}) =>
             /\ prompted'
             /\ choice' = <<"y">>]_vars

\* C1 witness: a layer of more than LARGE_LAYER_THRESHOLD ids has been approved
\* at its prompt and is about to be downloaded.
C1_Witness ==
    /\ pc = "download"
    /\ total_count > 100000
    /\ prompted
    /\ typed # <<>>

C4_SimpleDownloadFailure ==
    [][/\ (pc = "download" /\ ~TruthyIds(ids)) =>
             /\ written' = written
             /\ (pc' # "save" => out' # <<>>)
             /\ (li < Len(layers) => (si' = si /\ layers' = layers))
       /\ (pc = "save" /\ ~TruthyIds(ids) /\ FeatureCount(geojson_data) = 0) =>
             /\ written' = written
             /\ out' = <<Line0("[FAIL] Download resulted in empty file.")>>
             /\ pc' = "layers"
             /\ si' = si
             /\ li' = li + 1]_vars

\* C5: the name of every file written is the one built from the service name,
\* the layer id and the layer name, and holds safe characters only.
C5_SafeFileNames ==
    \A w \in written :
        /\ w.filename =
               FileName(StrReplace(w.service, <<"H","o","s","t","e","d","/">>, <<>>), w.id, w.name)
        /\ \A i \in DOMAIN w.filename : w.filename[i] \in SafeChars

\* C7: a file that one layer has written is never written again by another
\* (service, layer) pair.
C7_NoOverwrite ==
    [][\A w \in written : \A v \in written' :
          v.path = w.path => (v.service = w.service /\ v.id = w.id /\ v.name = w.name)]_vars

\* C8: every request other than the catalog request, every prompt and every
\* file comes from the pass of the service loop over a catalog entry whose
\* name holds a configured keyword, letter case ignored, and whose type is
\* 'FeatureServer'.
C8_OnlyEligibleServices ==
    [][((\E k \in DOMAIN req' : req'[k].kind # "catalog")
          \/ typed' # <<>>
          \/ pc' \in {"ask_large", "ask_unknown"}
          \/ written' # written) =>
         /\ si \in DOMAIN services
         /\ Eligible(services[si])
         /\ \A k \in DOMAIN req' : req'[k].url.service = services[si].name
         /\ \A w \in written' \ written : w.service = services[si].name]_vars

\* C8 witness: the layer list of the second catalog entry has been requested
\* after the first entry was passed over as not eligible.
C8_Witness ==
    /\ Len(services) = 2
    /\ si = 2
    /\ ~Eligible(services[1])
    /\ pc = "layers"
    /\ \E k \in DOMAIN req : req[k].kind = "layers"

=============================================================================
